---------------------------- MODULE Spec2Model ----------------------------
(***************************************************************************)
(* Model of src/server.js: an Express application serving an in-memory     *)
(* product catalog.  A request walks the application's layer stack in      *)
(* registration order (express.json, logger, bodyParser.json, auth, the    *)
(* route handlers, the 404 handler, the global error handler).  One action *)
(* per layer; the catalog `products` is the only state that outlives a     *)
(* request.                                                                *)
(*                                                                         *)
(* JavaScript values are tagged pairs <<type, value>>; JavaScript strings  *)
(* are sequences of one-character strings so that toLowerCase, includes    *)
(* and parseInt are computed, not assumed.  A JavaScript object is a       *)
(* function from its own keys to values.                                   *)
(***************************************************************************)
EXTENDS Integers, Sequences, FiniteSets, TLC

(***************************************************************************)
(* Bounds of the model.                                                    *)
(***************************************************************************)
\* Number of requests served in one behaviour.
MaxRequests == 3

(***************************************************************************)
(* JavaScript values.                                                      *)
(***************************************************************************)
Str(s)    == <<"string", s>>
Num(n)    == <<"number", n>>
Bool(b)   == <<"boolean", b>>
Null      == <<"null", 0>>
Undefined == <<"undefined", 0>>

TypeOf(x)  == x[1]
ValueOf(x) == x[2]

\* Strict equality (===) of two primitive values.
StrictEq(a, b) == TypeOf(a) = TypeOf(b) /\ ValueOf(a) = ValueOf(b)

\* ToBoolean, as used by `!x` and `if (x)`.
Truthy(x) ==
  CASE TypeOf(x) = "string"  -> ValueOf(x) # <<>>
    [] TypeOf(x) = "number"  -> ValueOf(x) # 0
    [] TypeOf(x) = "boolean" -> ValueOf(x)
    [] OTHER           -> FALSE

\* Property read / destructuring: an absent key reads as undefined.
Get(obj, k) == IF k \in DOMAIN obj THEN obj[k] ELSE Undefined

\* {}
EmptyObject == [k \in {} |-> Undefined]

\* x ?? d
Coalesce(x, d) == IF TypeOf(x) \in {"null", "undefined"} THEN d ELSE x

\* { ...a, ...b }
Spread(a, b) ==
  [k \in DOMAIN a \cup DOMAIN b |-> IF k \in DOMAIN b THEN b[k] ELSE a[k]]

\* JSON.stringify of an object followed by the client's parse: keys whose
\* value is undefined are dropped.
ToJSON(obj) == [k \in {j \in DOMAIN obj : TypeOf(obj[j]) # "undefined"} |-> obj[k]]

UpperChars == <<"A","B","C","D","E","F","G","H","I","J","K","L","M",
                "N","O","P","Q","R","S","T","U","V","W","X","Y","Z">>
LowerChars == <<"a","b","c","d","e","f","g","h","i","j","k","l","m",
                "n","o","p","q","r","s","t","u","v","w","x","y","z">>

LowerChar(c) ==
  IF \E i \in 1..26 : UpperChars[i] = c
    THEN LowerChars[CHOOSE i \in 1..26 : UpperChars[i] = c]
    ELSE c

\* String.prototype.toLowerCase
toLowerCase(s) == [i \in 1..Len(s) |-> LowerChar(s[i])]

\* String.prototype.includes
includes(s, sub) ==
  \E i \in 0..(Len(s) - Len(sub)) : SubSeq(s, i + 1, i + Len(sub)) = sub

DigitChars == <<"0","1","2","3","4","5","6","7","8","9">>
IsDigit(c) == \E i \in 1..10 : DigitChars[i] = c
DigitVal(c) == (CHOOSE i \in 1..10 : DigitChars[i] = c) - 1

RECURSIVE DigitsValue(_)
DigitsValue(s) ==
  IF s = <<>> THEN 0
  ELSE 10 * DigitsValue(SubSeq(s, 1, Len(s) - 1)) + DigitVal(s[Len(s)])

\* The longest prefix of s made of digits.
RECURSIVE DigitPrefix(_)
DigitPrefix(s) ==
  IF s = <<>> \/ ~IsDigit(s[1]) THEN <<>>
  ELSE <<s[1]>> \o DigitPrefix(Tail(s))

NaN == <<"NaN", 0>>

\* parseInt(x): a number is first converted to its decimal string, so a
\* non-negative integer parses to itself; a string parses to the value of
\* its leading digits, NaN when it has none.
parseInt(x) ==
  IF TypeOf(x) = "number" THEN x
  ELSE IF DigitPrefix(ValueOf(x)) = <<>> THEN NaN
  ELSE Num(DigitsValue(DigitPrefix(ValueOf(x))))

Max(a, b) == IF a > b THEN a ELSE b
Min(a, b) == IF a < b THEN a ELSE b

\* Array.prototype.slice(start, end): NaN counts as 0, a negative index
\* counts from the end, both are clamped to the array.
RelIndex(x, len) ==
  IF TypeOf(x) = "NaN" THEN 0
  ELSE IF ValueOf(x) < 0 THEN Max(len + ValueOf(x), 0)
  ELSE Min(ValueOf(x), len)

slice(arr, start, end) ==
  SubSeq(arr, RelIndex(start, Len(arr)) + 1, RelIndex(end, Len(arr)))

\* Array.prototype.findIndex on the id field, 1-based; 0 stands for -1.
findIndex(arr, id) ==
  IF \E i \in 1..Len(arr) : StrictEq(Get(arr[i], "id"), id)
    THEN CHOOSE i \in 1..Len(arr) :
           /\ StrictEq(Get(arr[i], "id"), id)
           /\ \A j \in 1..(i - 1) : ~StrictEq(Get(arr[j], "id"), id)
    ELSE 0

\* Array.prototype.splice(index, 1): the array without that element.
RemoveAt(arr, i) == SubSeq(arr, 1, i - 1) \o SubSeq(arr, i + 1, Len(arr))

(***************************************************************************)
(* String literals of the program, as character sequences.                 *)
(***************************************************************************)
Laptop == <<"L","a","p","t","o","p">>
LaptopDesc == <<"H","i","g","h","-","p","e","r","f","o","r","m","a","n","c","e"," ","l","a","p","t","o","p"," ","w","i","t","h"," ","1","6","G","B"," ","R","A","M">>
Smartphone == <<"S","m","a","r","t","p","h","o","n","e">>
SmartphoneDesc == <<"L","a","t","e","s","t"," ","m","o","d","e","l"," ","w","i","t","h"," ","1","2","8","G","B"," ","s","t","o","r","a","g","e">>
CoffeeMaker == <<"C","o","f","f","e","e"," ","M","a","k","e","r">>
CoffeeMakerDesc == <<"P","r","o","g","r","a","m","m","a","b","l","e"," ","c","o","f","f","e","e"," ","m","a","k","e","r"," ","w","i","t","h"," ","t","i","m","e","r">>
electronics == <<"e","l","e","c","t","r","o","n","i","c","s">>
kitchen == <<"k","i","t","c","h","e","n">>
api == <<"a","p","i">>
productsSeg == <<"p","r","o","d","u","c","t","s">>
statsSeg == <<"s","t","a","t","s">>
mysecurekey == <<"m","y","s","e","c","u","r","e","k","e","y">>

(***************************************************************************)
(* Strings that only requests carry.                                       *)
(***************************************************************************)
Desk == <<"D","e","s","k">>
furniture == <<"f","u","r","n","i","t","u","r","e">>
KITCHEN == <<"K","I","T","C","H","E","N">>
wrongkey == <<"w","r","o","n","g","k","e","y">>
nope == <<"n","o","p","e">>

(***************************************************************************)
(* Errors and responses.                                                   *)
(***************************************************************************)
NoError == [name |-> "none", message |-> "", statusCode |-> 0]

\* class NotFoundError: name 'NotFoundError', statusCode 404.
NotFoundError(message) ==
  [name |-> "NotFoundError", message |-> message, statusCode |-> 404]

\* class ValidationError: name 'ValidationError', statusCode 400.
ValidationError(message) ==
  [name |-> "ValidationError", message |-> message, statusCode |-> 400]

\* What express.json() passes to next() for a body that is not well-formed
\* JSON: a SyntaxError carrying statusCode 400.
JsonSyntaxError ==
  [name |-> "SyntaxError", message |-> "Unexpected token in JSON", statusCode |-> 400]

\* What Express passes to next() when a handler throws on calling
\* toLowerCase of a value that is not a string: a TypeError, which has no
\* statusCode (0 stands for undefined).
ThrownTypeError ==
  [name |-> "TypeError", message |-> "toLowerCase is not a function", statusCode |-> 0]

NoResponse == [status |-> 0, kind |-> "none", body |-> EmptyObject]
Response(status, kind, body) == [status |-> status, kind |-> kind, body |-> body]

\* What a handler did: the catalog it leaves, and either the response it
\* sent or the error it passed to next().
Replied(catalog, response) == [products |-> catalog, res |-> response, err |-> NoError]
Failed(catalog, error) == [products |-> catalog, res |-> NoResponse, err |-> error]

(***************************************************************************)
(* The catalog at start-up.                                                *)
(***************************************************************************)
Product(id, name, description, price, category, inStock) ==
  [id |-> id, name |-> name, description |-> description,
   price |-> price, category |-> category, inStock |-> inStock]

SeedProducts ==
  << Product(Str(<<"1">>), Str(Laptop), Str(LaptopDesc), Num(1200),
             Str(electronics), Bool(TRUE)),
     Product(Str(<<"2">>), Str(Smartphone), Str(SmartphoneDesc), Num(800),
             Str(electronics), Bool(TRUE)),
     Product(Str(<<"3">>), Str(CoffeeMaker), Str(CoffeeMakerDesc), Num(50),
             Str(kitchen), Bool(FALSE)) >>

\* uuidv4(): the n-th identifier generated.  Version-4 UUIDs are random
\* 122-bit values; the model takes them to be fresh, and distinct from
\* every identifier a client writes.
RECURSIVE Decimal(_)
Decimal(n) ==
  IF n < 10 THEN <<DigitChars[n + 1]>>
  ELSE Decimal(n \div 10) \o <<DigitChars[(n % 10) + 1]>>

uuidv4(n) == Str(<<"u","u","i","d","-">> \o Decimal(n))

(***************************************************************************)
(* Route handlers, as functions of the catalog and the request.            *)
(***************************************************************************)
\* (page - 1) * limit and startIndex + limit, with NaN propagating.
StartIndex(page, limit) ==
  IF TypeOf(page) = "NaN" \/ TypeOf(limit) = "NaN" THEN NaN ELSE Num((ValueOf(page) - 1) * ValueOf(limit))
EndIndex(startIndex, limit) ==
  IF TypeOf(startIndex) = "NaN" \/ TypeOf(limit) = "NaN" THEN NaN ELSE Num(ValueOf(startIndex) + ValueOf(limit))

IsString(x) == TypeOf(x) = "string"

\* filtered.filter(p => p.category.toLowerCase() === category.toLowerCase())
FilterCategory(arr, category) ==
  SelectSeq(arr, LAMBDA p : toLowerCase(ValueOf(Get(p, "category"))) = toLowerCase(ValueOf(category)))

\* filtered.filter(p => p.name.toLowerCase().includes(search.toLowerCase()))
FilterSearch(arr, search) ==
  SelectSeq(arr, LAMBDA p : includes(toLowerCase(ValueOf(Get(p, "name"))), toLowerCase(ValueOf(search))))

ToJSONList(arr) == [i \in 1..Len(arr) |-> ToJSON(arr[i])]

\* app.get('/api/products')
getProducts(catalog, query) ==
  LET category == Get(query, "category")
      search   == Get(query, "search")
      page     == parseInt(IF TypeOf(Get(query, "page")) = "undefined"
                             THEN Num(1) ELSE Get(query, "page"))
      limit    == parseInt(IF TypeOf(Get(query, "limit")) = "undefined"
                             THEN Num(5) ELSE Get(query, "limit"))
      categoryThrows ==
        /\ Truthy(category)
        /\ \E i \in 1..Len(catalog) : ~IsString(Get(catalog[i], "category"))
      byCategory ==
        IF Truthy(category) THEN FilterCategory(catalog, category) ELSE catalog
      searchThrows ==
        /\ Truthy(search)
        /\ \E i \in 1..Len(byCategory) : ~IsString(Get(byCategory[i], "name"))
      filtered ==
        IF Truthy(search) THEN FilterSearch(byCategory, search) ELSE byCategory
      startIndex == StartIndex(page, limit)
      endIndex   == EndIndex(startIndex, limit)
      paginated  == slice(filtered, startIndex, endIndex)
  IN  IF categoryThrows \/ searchThrows
        THEN Failed(catalog, ThrownTypeError)
        ELSE Replied(catalog,
               Response(200, "page",
                 [page |-> page, total |-> Len(filtered),
                  results |-> ToJSONList(paginated)]))

\* app.get('/api/products/:id')
getProductById(catalog, id) ==
  LET index == findIndex(catalog, id)
  IN  IF index = 0
        THEN Failed(catalog, NotFoundError("Product not found"))
        ELSE Replied(catalog, Response(200, "product", ToJSON(catalog[index])))

\* Variant of the object literal with inStock || true in place of inStock ?? true.
NewProduct_OrDefault(id, body) ==
  Product(id, Get(body, "name"), Get(body, "description"), Get(body, "price"),
          Get(body, "category"),
          IF Truthy(Get(body, "inStock")) THEN Get(body, "inStock") ELSE Bool(TRUE))

\* The object literal built by the create handler.
NewProduct(id, body) ==
  Product(id, Get(body, "name"), Get(body, "description"), Get(body, "price"),
          Get(body, "category"), Coalesce(Get(body, "inStock"), Bool(TRUE)))

\* Variant of the validation that does not test price.
MissingRequired_NoPrice(body) ==
  \/ ~Truthy(Get(body, "name"))
  \/ ~Truthy(Get(body, "category"))

\* if (!name || !price || !category)
MissingRequired(body) ==
  \/ ~Truthy(Get(body, "name"))
  \/ ~Truthy(Get(body, "price"))
  \/ ~Truthy(Get(body, "category"))

\* app.post('/api/products')
postProduct(catalog, body, id) ==
  IF MissingRequired(body)
    THEN Failed(catalog, ValidationError("Name, price, and category are required"))
    ELSE Replied(Append(catalog, NewProduct(id, body)),
                 Response(201, "product", ToJSON(NewProduct(id, body))))

\* Variant of the merge with the operands swapped: { ...req.body, ...products[index] }.
MergeUpdate_BodyFirst(product, body) == Spread(body, product)

\* { ...products[index], ...req.body }
MergeUpdate(product, body) == Spread(product, body)

\* app.put('/api/products/:id')
putProduct(catalog, id, body) ==
  LET index == findIndex(catalog, id)
  IN  IF index = 0
        THEN Failed(catalog, NotFoundError("Product not found"))
        ELSE Replied([catalog EXCEPT ![index] = MergeUpdate(catalog[index], body)],
                     Response(200, "product", ToJSON(MergeUpdate(catalog[index], body))))

\* Variant of the delete handler without the index === -1 test:
\* splice(-1, 1) removes the last element.
deleteProduct_NoCheck(catalog, id) ==
  LET found == findIndex(catalog, id)
      index == IF found = 0 THEN Len(catalog) ELSE found
  IN  IF catalog = <<>>
        THEN Replied(catalog, Response(200, "deleted",
                       [message |-> "Product deleted", product |-> EmptyObject]))
        ELSE Replied(RemoveAt(catalog, index),
                     Response(200, "deleted",
                       [message |-> "Product deleted", product |-> ToJSON(catalog[index])]))

\* app.delete('/api/products/:id')
deleteProduct(catalog, id) ==
  LET index == findIndex(catalog, id)
  IN  IF index = 0
        THEN Failed(catalog, NotFoundError("Product not found"))
        ELSE Replied(RemoveAt(catalog, index),
                     Response(200, "deleted",
                       [message |-> "Product deleted", product |-> ToJSON(catalog[index])]))

\* app.get('/api/products/stats'): category -> number of products.
getStats(catalog) ==
  LET cats == {Get(catalog[i], "category") : i \in 1..Len(catalog)}
  IN  Replied(catalog,
        Response(200, "stats",
          [c \in cats |->
             Cardinality({i \in 1..Len(catalog) : Get(catalog[i], "category") = c})]))

(***************************************************************************)
(* Requests.                                                               *)
(***************************************************************************)
\* A path is its sequence of segments: "/" is <<>>, "/api/products/1" is
\* <<api, productsSeg, <<"1">>>>.
RootPath        == <<>>
ProductsPath    == <<api, productsSeg>>
ProductPath(id) == <<api, productsSeg, id>>

NoBody        == [kind |-> "none", value |-> EmptyObject]
MalformedBody == [kind |-> "malformed", value |-> EmptyObject]
JsonBody(obj) == [kind |-> "json", value |-> obj]

Request(method, path, apiKey, query, rawBody) ==
  [method |-> method, path |-> path, apiKey |-> apiKey,
   query |-> query, rawBody |-> rawBody]

NoRequest == Request("none", RootPath, Undefined, EmptyObject, NoBody)

\* The ids requests name in a path: two seeds, the word "stats", and the
\* first generated identifier.
PathIds == {<<"1">>, <<"2">>, statsSeg, ValueOf(uuidv4(1))}

\* JSON objects sent to POST /api/products.
CreateBodies ==
  { [name |-> Str(Desk), price |-> Num(300), category |-> Str(furniture)],
    [name |-> Str(Desk), description |-> Str(<<"O","a","k">>), price |-> Num(300),
     category |-> Num(5), inStock |-> Null],
    [id |-> Str(<<"1">>), name |-> Num(7), price |-> Str(<<"9">>),
     category |-> Str(KITCHEN), inStock |-> Bool(FALSE)],
    [name |-> Str(Desk), price |-> Num(0), category |-> Str(furniture)],
    [name |-> Str(<<>>), price |-> Num(300), category |-> Str(furniture)],
    [name |-> Str(Desk), price |-> Num(300), category |-> Null],
    [name |-> Str(Desk), price |-> Num(300)],
    EmptyObject }

\* JSON objects sent to PUT /api/products/:id.
UpdateBodies ==
  { [price |-> Num(999)],
    [id |-> Str(<<"2">>)],
    [id |-> Str(statsSeg), inStock |-> Bool(FALSE)],
    [name |-> Str(Desk), category |-> Num(5), colour |-> Str(<<"r","e","d">>)],
    EmptyObject }

\* Query strings of GET /api/products: every parameter is either absent or
\* one of a few strings.
QueryParam(S) == {Undefined} \cup {Str(s) : s \in S}

Queries ==
  { ToJSON([category |-> c, search |-> s, page |-> p, limit |-> l]) :
      c \in QueryParam({KITCHEN}),
      s \in QueryParam({<<"O">>}),
      p \in QueryParam({<<"2">>, <<"0">>}),
      l \in QueryParam({<<"1">>, <<"2">>}) }

ValidKey == Str(mysecurekey)

AuthenticRequests ==
       {Request("GET", p, ValidKey, EmptyObject, NoBody) :
          p \in {RootPath, <<nope>>} \cup {ProductPath(id) : id \in PathIds}}
  \cup {Request("GET", ProductsPath, ValidKey, q, NoBody) : q \in Queries}
  \cup {Request("POST", ProductsPath, ValidKey, EmptyObject, JsonBody(b)) : b \in CreateBodies}
  \cup {Request("PUT", ProductPath(id), ValidKey, EmptyObject, JsonBody(b)) :
          id \in PathIds, b \in UpdateBodies}
  \cup {Request("DELETE", ProductPath(id), ValidKey, EmptyObject, NoBody) : id \in PathIds}
  \cup {Request("POST", ProductsPath, ValidKey, EmptyObject, MalformedBody),
        Request("PUT", ProductPath(<<"1">>), ValidKey, EmptyObject, MalformedBody),
        Request("DELETE", ProductsPath, ValidKey, EmptyObject, NoBody),
        Request("POST", ProductPath(<<"1">>), ValidKey, EmptyObject, JsonBody(EmptyObject))}

\* Requests whose x-api-key header is absent or wrong.
ForeignRequests ==
  { Request(r.method, r.path, k, r.query, r.rawBody) :
      k \in {Undefined, Str(wrongkey)},
      r \in { Request("GET", RootPath, ValidKey, EmptyObject, NoBody),
              Request("GET", ProductsPath, ValidKey, EmptyObject, NoBody),
              Request("GET", <<nope>>, ValidKey, EmptyObject, NoBody),
              Request("POST", ProductsPath, ValidKey, EmptyObject,
                      JsonBody([name |-> Str(Desk), price |-> Num(300),
                                category |-> Str(furniture)])),
              Request("POST", ProductsPath, ValidKey, EmptyObject, MalformedBody),
              Request("PUT", ProductPath(<<"1">>), ValidKey, EmptyObject,
                      JsonBody([id |-> Str(<<"2">>)])),
              Request("DELETE", ProductPath(<<"1">>), ValidKey, EmptyObject, NoBody) } }

Requests == AuthenticRequests \cup ForeignRequests

(***************************************************************************)
(* The layer stack, in registration order, and the route table.            *)
(***************************************************************************)
Stack ==
  << "express.json", "logger", "bodyParser.json", "auth",
     "getRoot", "getProducts", "getProductById", "postProduct",
     "putProduct", "deleteProduct", "getStats", "notFound", "errorHandler" >>

Position(layer) == CHOOSE i \in 1..Len(Stack) : Stack[i] = layer

Lit(s) == [param |-> FALSE, s |-> s]
Param  == [param |-> TRUE, s |-> <<"i","d">>]

Route(layer) ==
  CASE layer = "getRoot"        -> [method |-> "GET",    pattern |-> <<>>]
    [] layer = "getProducts"    -> [method |-> "GET",    pattern |-> <<Lit(api), Lit(productsSeg)>>]
    [] layer = "getProductById" -> [method |-> "GET",    pattern |-> <<Lit(api), Lit(productsSeg), Param>>]
    [] layer = "postProduct"    -> [method |-> "POST",   pattern |-> <<Lit(api), Lit(productsSeg)>>]
    [] layer = "putProduct"     -> [method |-> "PUT",    pattern |-> <<Lit(api), Lit(productsSeg), Param>>]
    [] layer = "deleteProduct"  -> [method |-> "DELETE", pattern |-> <<Lit(api), Lit(productsSeg), Param>>]
    [] layer = "getStats"       -> [method |-> "GET",    pattern |-> <<Lit(api), Lit(productsSeg), Lit(statsSeg)>>]

\* Express's match of a route against a request: same verb, same number
\* of segments, and every literal segment equal.
Matches(route, r) ==
  /\ route.method = r.method
  /\ Len(route.pattern) = Len(r.path)
  /\ \A i \in 1..Len(route.pattern) :
       route.pattern[i].param \/ route.pattern[i].s = r.path[i]

\* req.params.id of a request matched by a /api/products/:id route.
ParamId(r) == Str(r.path[3])

(***************************************************************************)
(* State.                                                                  *)
(***************************************************************************)
VARIABLES
  products,   \* the catalog: let products = [...]
  generated,  \* how many identifiers uuidv4() has produced
  served,     \* how many requests have been received
  pc,         \* position of the request in the layer stack; 0: none in flight
  req,        \* the request in flight, or the last one answered
  body,       \* req.body
  err,        \* the error passed to next(), NoError when none
  res,        \* the response sent, NoResponse while none is
  handler,    \* the route handler that ran for the request, "none" when none did
  console,    \* what console.log / console.error printed for the request
  before,     \* the catalog when the request was received
  prev        \* the exchange answered before the request was received

vars == <<products, generated, served, pc, req, body, err, res, handler,
          console, before, prev>>

\* What is remembered of the exchange before the current one: a creation
\* (201) or a deletion (200) with the product it returned and the body it
\* was sent; any other exchange leaves no trace.
NoExchange == [method |-> "other", path |-> <<>>, status |-> 0,
               product |-> EmptyObject, sent |-> EmptyObject]

Exchange(r, response) ==
  IF response.status = 201 \/ response.kind = "deleted"
    THEN [method |-> r.method, path |-> r.path, status |-> response.status,
          product |-> IF response.kind = "deleted"
                        THEN response.body.product ELSE response.body,
          sent |-> r.rawBody.value]
    ELSE NoExchange

Init ==
  /\ products = SeedProducts
  /\ generated = 0
  /\ served = 0
  /\ pc = 0
  /\ req = NoRequest
  /\ body = Undefined
  /\ err = NoError
  /\ res = NoResponse
  /\ handler = "none"
  /\ console = <<>>
  /\ before = SeedProducts
  /\ prev = NoExchange

At(layer) == pc # 0 /\ Stack[pc] = layer

\* next(): on to the following layer; next(error): on to the error handler.
Pass(error) ==
  /\ err' = error
  /\ pc' = IF error = NoError THEN pc + 1 ELSE Position("errorHandler")

\* A request arrives while none is in flight (one handler body runs to
\* completion before the next request is taken up).
Receive(r) ==
  /\ pc = 0
  /\ served < MaxRequests
  /\ served' = served + 1
  /\ prev' = Exchange(req, res)
  /\ req' = r
  /\ body' = Undefined
  /\ err' = NoError
  /\ res' = NoResponse
  /\ handler' = "none"
  /\ console' = <<>>
  /\ before' = products
  /\ pc' = 1
  /\ UNCHANGED <<products, generated>>

\* app.use(express.json()): parses a JSON body into req.body ({} when the
\* request has none); a body that is not well-formed JSON is an error.
ExpressJson ==
  /\ At("express.json")
  /\ IF req.rawBody.kind = "malformed"
       THEN Pass(JsonSyntaxError) /\ UNCHANGED body
       ELSE Pass(NoError) /\ body' = req.rawBody.value
  /\ UNCHANGED <<products, generated, served, req, res, handler, console, before, prev>>

\* The logger middleware: console.log(`[${timestamp}] ${req.method} ${req.originalUrl}`)
Logger ==
  /\ At("logger")
  /\ console' = Append(console, [level |-> "log", method |-> req.method,
                                 path |-> req.path, query |-> req.query])
  /\ Pass(NoError)
  /\ UNCHANGED <<products, generated, served, req, body, res, handler, before, prev>>

\* app.use(bodyParser.json()): the body was parsed already, nothing to do.
BodyParserJson ==
  /\ At("bodyParser.json")
  /\ Pass(NoError)
  /\ UNCHANGED <<products, generated, served, req, body, res, handler, console, before, prev>>

\* Variant of the key test that lets a request without the header through.
InvalidKey_AbsentPasses(apiKey) ==
  TypeOf(apiKey) # "undefined" /\ ~StrictEq(apiKey, Str(mysecurekey))

\* apiKey !== 'mysecurekey'
InvalidKey(apiKey) == ~StrictEq(apiKey, Str(mysecurekey))

\* The authentication middleware.
Auth ==
  /\ At("auth")
  /\ IF InvalidKey(req.apiKey)
       THEN Pass(ValidationError("Forbidden. Invalid API Key."))
       ELSE Pass(NoError)
  /\ UNCHANGED <<products, generated, served, req, body, res, handler, console, before, prev>>

\* A route layer: skipped when the route does not match the request;
\* otherwise its handler runs, and either sends the response, which ends
\* the request, or passes an error on.
Handle(layer, outcome) ==
  /\ At(layer)
  /\ IF Matches(Route(layer), req)
       THEN /\ handler' = layer
            /\ products' = outcome.products
            /\ res' = outcome.res
            /\ err' = outcome.err
            /\ pc' = IF outcome.err = NoError THEN 0 ELSE Position("errorHandler")
       ELSE /\ pc' = pc + 1
            /\ UNCHANGED <<products, res, err, handler>>
  /\ UNCHANGED <<served, req, body, console, before, prev>>

\* app.get('/')
GetRoot ==
  /\ Handle("getRoot",
            Replied(products, Response(200, "text",
                      "Welcome to the Product API! Visit /api/products")))
  /\ UNCHANGED generated

GetProducts ==
  /\ Handle("getProducts", getProducts(products, req.query))
  /\ UNCHANGED generated

GetProductById ==
  /\ Handle("getProductById", getProductById(products, ParamId(req)))
  /\ UNCHANGED generated

\* uuidv4() is called only once the body has passed validation.
PostProduct ==
  /\ Handle("postProduct", postProduct(products, body, uuidv4(generated + 1)))
  /\ generated' = IF Matches(Route("postProduct"), req) /\ ~MissingRequired(body)
                    THEN generated + 1 ELSE generated

PutProduct ==
  /\ Handle("putProduct", putProduct(products, ParamId(req), body))
  /\ UNCHANGED generated

DeleteProduct ==
  /\ Handle("deleteProduct", deleteProduct(products, ParamId(req)))
  /\ UNCHANGED generated

GetStats ==
  /\ Handle("getStats", getStats(products))
  /\ UNCHANGED generated

\* The 404 handler for unknown routes.
NotFound ==
  /\ At("notFound")
  /\ Pass(NotFoundError("Route not found"))
  /\ UNCHANGED <<products, generated, served, req, body, res, handler, console, before, prev>>

\* The global error handler: err.statusCode || 500, { error, message }.
ErrorHandler ==
  /\ At("errorHandler")
  /\ console' = Append(console, [level |-> "error", name |-> err.name,
                                 message |-> err.message])
  /\ res' = Response(IF err.statusCode # 0 THEN err.statusCode ELSE 500, "error",
                     [error |-> err.name, message |-> err.message])
  /\ pc' = 0
  /\ UNCHANGED <<products, generated, served, req, body, err, handler, before, prev>>

Next ==
  \/ \E r \in Requests : Receive(r)
  \/ ExpressJson
  \/ Logger
  \/ BodyParserJson
  \/ Auth
  \/ GetRoot
  \/ GetProducts
  \/ GetProductById
  \/ PostProduct
  \/ PutProduct
  \/ DeleteProduct
  \/ GetStats
  \/ NotFound
  \/ ErrorHandler

Spec == Init /\ [][Next]_vars

(***************************************************************************)
(* Properties.                                                             *)
(***************************************************************************)
\* The request in `req` has been answered.
Answered == pc = 0 /\ served > 0

Authentic == TypeOf(req.apiKey) = "string" /\ ValueOf(req.apiKey) = mysecurekey

OnProduct(r) == Len(r.path) = 3 /\ r.path[1] = api /\ r.path[2] = productsSeg

IsErrorReply(status, name) ==
  res.status = status /\ res.kind = "error" /\ res.body.error = name

\* The request's console.log line has been printed.
Logged == \E i \in 1..Len(console) : console[i].level = "log"

HasId(catalog, id) ==
  \E i \in 1..Len(catalog) : StrictEq(Get(catalog[i], "id"), Str(id))

\* C1: no two products in the catalog have the same id, in every state
\* reachable by authenticated POST, PUT and DELETE requests.
C1_UniqueIds ==
  \A i, j \in 1..Len(products) :
    i # j => ~StrictEq(Get(products[i], "id"), Get(products[j], "id"))

\* C2 (as claimed): a request whose x-api-key header is absent or wrong is
\* answered 400 with error "ValidationError", whatever its method, path and
\* body (well-formed or not), and no route handler runs for it.
C2_ForeignIsValidationError ==
  (Answered /\ ~Authentic) =>
    /\ IsErrorReply(400, "ValidationError")
    /\ handler = "none"

\* C2 (amended): a request whose x-api-key header is absent or wrong is
\* answered 400, no route handler runs for it and the catalog is untouched;
\* the error is "ValidationError" when express.json() accepted the body and
\* "SyntaxError" when the body is not well-formed JSON.
C2_ForeignIsRejected ==
  (Answered /\ ~Authentic) =>
    /\ IsErrorReply(400, IF req.rawBody.kind = "malformed"
                           THEN "SyntaxError" ELSE "ValidationError")
    /\ handler = "none"
    /\ products = before

C2_Witness ==
  /\ Answered /\ ~Authentic
  /\ req.method = "POST" /\ req.rawBody.kind = "json"
  /\ IsErrorReply(400, "ValidationError")

\* C3: every request is logged before anything else happens to it; in
\* particular no request is answered without its log line.
C3_AnsweredIsLogged == Answered => Logged

\* The shallow merge the claim C4 describes, field by field.
IsMergeOf(merged, old, new) ==
  /\ DOMAIN merged = DOMAIN old \cup DOMAIN new
  /\ \A k \in DOMAIN new : merged[k] = new[k]
  /\ \A k \in DOMAIN old \ DOMAIN new : merged[k] = old[k]

\* C4: a PUT answered 200 replaces the matched record by the shallow merge
\* of the body onto it (absent fields kept, present fields overwritten),
\* returns the merged record, and leaves every other record, the length and
\* the order of the catalog unchanged.
C4_PutMerges ==
  (Answered /\ Authentic /\ req.method = "PUT" /\ res.status = 200) =>
    /\ OnProduct(req)
    /\ HasId(before, req.path[3])
    /\ Len(products) = Len(before)
    /\ LET m == CHOOSE i \in 1..Len(before) :
                  /\ StrictEq(Get(before[i], "id"), Str(req.path[3]))
                  /\ \A j \in 1..(i - 1) :
                       ~StrictEq(Get(before[j], "id"), Str(req.path[3]))
       IN  /\ IsMergeOf(products[m], before[m], req.rawBody.value)
           /\ \A j \in 1..Len(before) : j # m => products[j] = before[j]
           /\ res.kind = "product"
           /\ res.body = ToJSON(products[m])

C4_Witness ==
  /\ Answered /\ Authentic /\ req.method = "PUT" /\ res.status = 200
  /\ DOMAIN req.rawBody.value = {"name", "category", "colour"}
  /\ Len(before) > 3

\* C5: after an authenticated DELETE /api/products/X answered 200, the GET
\* /api/products/X that follows it answers 404 NotFoundError, and the
\* product the DELETE returned is no longer in the catalog.
C5_GetAfterDelete ==
  (/\ Answered /\ Authentic /\ req.method = "GET" /\ OnProduct(req)
   /\ prev.method = "DELETE" /\ prev.status = 200 /\ prev.path = req.path) =>
    /\ IsErrorReply(404, "NotFoundError")
    /\ \A i \in 1..Len(products) : ToJSON(products[i]) # prev.product

\* C6: an authenticated DELETE /api/products/:id whose id matches no
\* product answers 404 NotFoundError and leaves the catalog as it was.
C6_DeleteUnknown ==
  (/\ Answered /\ Authentic /\ req.method = "DELETE" /\ OnProduct(req)
   /\ ~HasId(before, req.path[3])) =>
    /\ IsErrorReply(404, "NotFoundError")
    /\ products = before

C6_Witness ==
  /\ Answered /\ Authentic /\ req.method = "DELETE" /\ OnProduct(req)
  /\ ~HasId(before, req.path[3])
  /\ req.path[3] = <<"1">>
  /\ served > 1

\* The category and search filters as the claim C7 words them:
\* case-insensitive equality of the category, case-insensitive containment
\* in the name, each applied only when its parameter is given.
PassesFilters(p, query) ==
  /\ "category" \in DOMAIN query =>
       /\ IsString(Get(p, "category"))
       /\ toLowerCase(ValueOf(Get(p, "category"))) = toLowerCase(ValueOf(query.category))
  /\ "search" \in DOMAIN query =>
       /\ IsString(Get(p, "name"))
       /\ includes(toLowerCase(ValueOf(Get(p, "name"))), toLowerCase(ValueOf(query.search)))

\* Positions (P-1)*L up to but excluding P*L of a sequence.
PageOf(arr, P, L) ==
  LET start == (P - 1) * L
      n     == IF start >= Len(arr) THEN 0 ELSE Min(L, Len(arr) - start)
  IN  [i \in 1..n |-> arr[start + i]]

\* The request is a listing with page and limit given as positive integers.
IsPagedListing ==
  /\ req.method = "GET" /\ req.path = ProductsPath
  /\ {"page", "limit"} \subseteq DOMAIN req.query
  /\ DigitsValue(ValueOf(req.query.page)) > 0
  /\ DigitsValue(ValueOf(req.query.limit)) > 0

\* C7: an authenticated GET /api/products with positive integers page=P and
\* limit=L answers 200; total is the number of records passing the category
\* and search filters, results has at most L elements and is positions
\* (P-1)*L .. P*L-1 of the filtered sequence in catalog order (empty when
\* (P-1)*L >= total).
C7_ListingIsFilteredPage ==
  (Answered /\ Authentic /\ IsPagedListing) =>
    LET P == DigitsValue(ValueOf(req.query.page))
        L == DigitsValue(ValueOf(req.query.limit))
        F == SelectSeq(before, LAMBDA p : PassesFilters(p, req.query))
    IN  /\ res.status = 200
        /\ res.kind = "page"
        /\ res.body.total = Len(F)
        /\ Len(res.body.results) <= L
        /\ res.body.results = ToJSONList(PageOf(F, P, L))
        /\ ((P - 1) * L >= Len(F) => res.body.results = <<>>)

\* Every name and category of the catalog the request found is a string.
StringCatalog ==
  \A i \in 1..Len(before) :
    IsString(Get(before[i], "name")) /\ IsString(Get(before[i], "category"))

\* Supplement to C7: the listing is the filtered page whenever the catalog
\* holds only string names and categories, and when it is not, the answer
\* is the 500 of a TypeError.
ListingOnStringCatalog ==
  /\ StringCatalog => C7_ListingIsFilteredPage
  /\ (Answered /\ Authentic /\ IsPagedListing /\ ~C7_ListingIsFilteredPage) =>
       IsErrorReply(500, "TypeError")

\* The request is the GET of the product that the exchange just before
\* it created.
IsGetOfCreated ==
  /\ Authentic /\ req.method = "GET" /\ OnProduct(req)
  /\ prev.method = "POST" /\ prev.status = 201
  /\ StrictEq(Str(req.path[3]), prev.product.id)

\* R carries the body's name, description, price and category.
CarriesFields(R, sent) ==
  \A k \in {"name", "description", "price", "category"} :
    IF k \in DOMAIN sent
      THEN k \in DOMAIN R /\ StrictEq(R[k], sent[k])
      ELSE k \notin DOMAIN R

\* C8 (as claimed): after a POST answered 201 with product R, the GET of
\* R.id that follows answers 200 with a record equal to R; R carries the
\* body's name, description, price and category, and inStock is the body's
\* value, or true when the body omits it.
C8_RoundTrip ==
  (Answered /\ IsGetOfCreated) =>
    /\ res.status = 200 /\ res.kind = "product"
    /\ res.body = prev.product
    /\ CarriesFields(prev.product, prev.sent)
    /\ StrictEq(prev.product.inStock,
                IF "inStock" \in DOMAIN prev.sent THEN prev.sent.inStock ELSE Bool(TRUE))

\* C8 (amended): as above, but inStock is true also when the body gives
\* inStock as null.
C8_RoundTripNullDefault ==
  (Answered /\ IsGetOfCreated) =>
    /\ res.status = 200 /\ res.kind = "product"
    /\ res.body = prev.product
    /\ CarriesFields(prev.product, prev.sent)
    /\ StrictEq(prev.product.inStock,
                IF "inStock" \in DOMAIN prev.sent /\ TypeOf(prev.sent.inStock) # "null"
                  THEN prev.sent.inStock ELSE Bool(TRUE))

C8_Witness ==
  /\ Answered /\ IsGetOfCreated
  /\ res.status = 200
  /\ "inStock" \in DOMAIN prev.sent /\ TypeOf(prev.sent.inStock) = "null"

\* A field the claim C9 calls missing or falsy: absent, null, false, 0 or
\* the empty string.
MissingOrFalsy(obj, k) ==
  \/ k \notin DOMAIN obj
  \/ TypeOf(obj[k]) = "null"
  \/ TypeOf(obj[k]) = "boolean" /\ ~ValueOf(obj[k])
  \/ TypeOf(obj[k]) = "number" /\ ValueOf(obj[k]) = 0
  \/ TypeOf(obj[k]) = "string" /\ Len(ValueOf(obj[k])) = 0

C10_StatsIsNotFound ==
  (/\ Answered /\ Authentic /\ req.method = "GET"
   /\ req.path = ProductPath(statsSeg)) =>
    /\ handler = "getProductById"
    /\ IsErrorReply(404, "NotFoundError")
    /\ res.body.message = "Product not found"

=============================================================================
